---- MODULE Spec2Model ----
(***************************************************************************)
(* Model of sentinel_query.py: the seasonal date-window builder, the       *)
(* catalog query with its ranking step, the download loop, the band        *)
(* stacking helper and the main_example workflow.                          *)
(***************************************************************************)
EXTENDS Integers, Sequences, FiniteSets, TLC

VARIABLES
    pc,             \* position of the running function
    start_year,     \* argument start_year
    end_year,       \* argument end_year
    months,         \* argument months, a pair (start-month, end-month)
    date_ranges,    \* list returned by _month_limited_date_ranges
    results,        \* list `results` of query_sentinel_products
    rank_in,        \* the list as it was handed to results.sort
    query_calls,    \* api.query calls made so far (the date= argument of each)
    products,       \* argument products of download_products
    di,             \* 1-based index of the next entry of the download loop
    downloaded,     \* list `downloaded` of download_products
    download_calls, \* api.download calls made so far, with their outcome
    warnings,       \* number of logger.warning records of download_products
    exceptions,     \* number of logger.exception records of download_products
    criteria,       \* arguments wkt_area, cloud_max, product_type, platformname
    caller,         \* "main" while main_example is running, else "none"
    config,         \* the configuration main_example has loaded
    steps,          \* the workflow steps main_example has entered, in order
    composites      \* composite operations attempted by main_example

vars == <<pc, start_year, end_year, months, date_ranges, results, rank_in,
          query_calls, products, di, downloaded, download_calls, warnings,
          exceptions, criteria, caller, config, steps, composites>>

dateVars == <<start_year, end_year, months, date_ranges>>
queryVars == <<results, rank_in, query_calls>>
downloadVars == <<products, di, downloaded, download_calls, warnings, exceptions>>
mainVars == <<criteria, caller, config, steps, composites>>

\* Python's None, and a present value v, as a sequence of length 0 or 1.
None == <<>>
Some(v) == <<v>>

----------------------------------------------------------------------------
\* Bounds of the model.
YearSpan == 2
MaxMonth == 13

\* Defaults of the program.
DefaultStartYear == 2019
DefaultMonths == <<5, 8>>

Years == DefaultStartYear .. (DefaultStartYear + YearSpan)
MonthArgs == 0 .. MaxMonth

----------------------------------------------------------------------------
\* datetime.date and date.isoformat

IsLeap(y) == (y % 4 = 0) /\ ((y % 100 # 0) \/ (y % 400 = 0))

DaysInMonth(y, m) ==
    IF m = 2 THEN (IF IsLeap(y) THEN 29 ELSE 28)
    ELSE IF m \in {4, 6, 9, 11} THEN 30
    ELSE 31

\* dt.date(y, m, d) raises ValueError unless this holds.
DateValid(y, m, d) ==
    /\ y \in 1 .. 9999
    /\ m \in 1 .. 12
    /\ d \in 1 .. DaysInMonth(y, m)

Date(y, m, d) == [year |-> y, month |-> m, day |-> d]

Digit(n) ==
    CASE n = 0 -> "0" [] n = 1 -> "1" [] n = 2 -> "2" [] n = 3 -> "3"
      [] n = 4 -> "4" [] n = 5 -> "5" [] n = 6 -> "6" [] n = 7 -> "7"
      [] n = 8 -> "8" [] n = 9 -> "9"

DigitValue(c) ==
    CASE c = "0" -> 0 [] c = "1" -> 1 [] c = "2" -> 2 [] c = "3" -> 3
      [] c = "4" -> 4 [] c = "5" -> 5 [] c = "6" -> 6 [] c = "7" -> 7
      [] c = "8" -> 8 [] c = "9" -> 9

\* "%04d-%02d-%02d", a string as the sequence of its characters.
isoformat(d) ==
    << Digit(d.year \div 1000), Digit((d.year \div 100) % 10),
       Digit((d.year \div 10) % 10), Digit(d.year % 10), "-",
       Digit(d.month \div 10), Digit(d.month % 10), "-",
       Digit(d.day \div 10), Digit(d.day % 10) >>

\* Reading an ISO string back (used to state properties of the windows).
fromisoformat(s) ==
    Date(DigitValue(s[1]) * 1000 + DigitValue(s[2]) * 100
           + DigitValue(s[3]) * 10 + DigitValue(s[4]),
         DigitValue(s[6]) * 10 + DigitValue(s[7]),
         DigitValue(s[9]) * 10 + DigitValue(s[10]))

DateLeq(a, b) ==
    \/ a.year < b.year
    \/ a.year = b.year /\ a.month < b.month
    \/ a.year = b.year /\ a.month = b.month /\ a.day <= b.day

----------------------------------------------------------------------------
\* _month_limited_date_ranges

\* The outcome of a call: a returned value, or a raised exception.
Returned(v) == [raised |-> FALSE, value |-> v]
Raised(e) == [raised |-> TRUE, error |-> e]

\* The day of the month the code gives to the end date of a window.
EndDay_clamped(y, m) == IF m \in 1 .. 12 THEN DaysInMonth(y, m) ELSE 31
EndDay_30(y, m) == 30
EndDay(y, m) == 31

RECURSIVE RangesLoop(_, _, _, _)
RangesLoop(y, last, ms, ranges) ==
    IF y > last THEN Returned(ranges)
    ELSE IF ~DateValid(y, ms[1], 1) THEN Raised("ValueError")
    ELSE IF ~DateValid(y, ms[2], EndDay(y, ms[2])) THEN Raised("ValueError")
    ELSE RangesLoop(y + 1, last, ms,
                    Append(ranges,
                           << isoformat(Date(y, ms[1], 1)),
                              isoformat(Date(y, ms[2], EndDay(y, ms[2]))) >>))

month_limited_date_ranges_short(sy, ey, ms) == RangesLoop(sy, ey - 1, ms, <<>>)
month_limited_date_ranges(sy, ey, ms) == RangesLoop(sy, ey, ms, <<>>)

----------------------------------------------------------------------------
\* A call of _month_limited_date_ranges on its own.

NoQuery == /\ results = <<>> /\ rank_in = <<>> /\ query_calls = <<>>

\* Constants & defaults of the query arguments.  A number is a record of its
\* Python type and its value in tenths.
SENTINEL2_PRODUCTTYPE == "S2MSI2A"
DEFAULT_CLOUD_MAX == [kind |-> "float", tenths |-> 50]
DefaultPlatform == "Sentinel-2"

DefaultCriteria ==
    [wkt_area |-> "POLYGON_CFG", cloud_max |-> DEFAULT_CLOUD_MAX,
     product_type |-> SENTINEL2_PRODUCTTYPE, platformname |-> DefaultPlatform]

\* main_example is not running.
NoConfig == [emlid_csv |-> FALSE, wkt_area |-> None, limit_products |-> None]
NoMain ==
    /\ caller = "none" /\ config = NoConfig /\ steps = <<>>
    /\ composites = <<>>
NoDownload ==
    /\ products = <<>> /\ di = 1 /\ downloaded = <<>>
    /\ download_calls = <<>> /\ warnings = 0 /\ exceptions = 0

InitDates ==
    /\ pc = "ranges_call"
    /\ start_year \in Years
    /\ end_year \in Years
    /\ months \in MonthArgs \X MonthArgs
    /\ date_ranges = <<>>
    /\ NoQuery
    /\ NoDownload
    /\ criteria = DefaultCriteria
    /\ NoMain

RangesReturn ==
    /\ pc = "ranges_call"
    /\ ~month_limited_date_ranges(start_year, end_year, months).raised
    /\ date_ranges' = month_limited_date_ranges(start_year, end_year, months).value
    /\ pc' = "ranges_returned"
    /\ UNCHANGED <<mainVars, start_year, end_year, months, queryVars, downloadVars>>

RangesRaise ==
    /\ pc = "ranges_call"
    /\ month_limited_date_ranges(start_year, end_year, months).raised
    /\ pc' = "ranges_raised"
    /\ UNCHANGED <<mainVars, dateVars, queryVars, downloadVars>>

NextDates == RangesReturn \/ RangesRaise

SpecDates == InitDates /\ [][NextDates]_vars

----------------------------------------------------------------------------
\* results.sort(key=..., reverse=True)

\* Bounds of the catalog model.
MaxTs == 2
MaxResults == 3

Timestamps == {None} \cup {Some(t) : t \in 1 .. MaxTs}
IngestionDates == {None, Some(1)}
Uids == {"a", "b"}

\* A metadata record as the catalog returns it; an absent key reads as None.
Metas == [beginposition : Timestamps, ingestiondate : IngestionDates]

\* m.get("beginposition") or m.get("ingestiondate")
SortKey(m) ==
    IF m.beginposition # None THEN m.beginposition ELSE m.ingestiondate

Reverse(s) == [i \in 1 .. Len(s) |-> s[Len(s) + 1 - i]]

\* Insertion of m into an ascending list, to the right of every entry whose
\* key is not greater than the key of m (keys are all present here).
InsertRight(sorted, m) ==
    LET k == SortKey(m)[1]
        n == Cardinality({i \in 1 .. Len(sorted) : SortKey(sorted[i])[1] <= k})
    IN  SubSeq(sorted, 1, n) \o <<m>> \o SubSeq(sorted, n + 1, Len(sorted))

RECURSIVE StableSortAsc(_)
StableSortAsc(s) ==
    IF s = <<>> THEN <<>>
    ELSE InsertRight(StableSortAsc(SubSeq(s, 1, Len(s) - 1)), s[Len(s)])

\* Comparing a None key with any key raises TypeError; a list of two or more
\* entries has every entry compared at least once.
SortRaises(s) == Len(s) >= 2 /\ \E i \in 1 .. Len(s) : SortKey(s[i]) = None

\* list.sort with reverse=True: reverse, sort ascending and stable, reverse.
ListSortReverse_unstable(s) ==
    IF Len(s) < 2 THEN s ELSE Reverse(StableSortAsc(s))
ListSortReverse_ascending(s) ==
    IF Len(s) < 2 THEN s ELSE StableSortAsc(s)
ListSortReverse(s) ==
    IF Len(s) < 2 THEN s ELSE Reverse(StableSortAsc(Reverse(s)))

----------------------------------------------------------------------------
\* query_sentinel_products

\* A response of api.query: an ordered mapping uid -> metadata.
Items == [uid : Uids, meta : Metas]
Responses ==
    {<<>>} \cup {<<a>> : a \in Items}
           \cup {<<a, b>> : a \in Items, b \in Items} 

DistinctKeys(resp) ==
    \A i, j \in 1 .. Len(resp) : i # j => resp[i].uid # resp[j].uid

\* meta["_uid"] = uid
WithUid_nouid(item) ==
    [_uid |-> None, beginposition |-> item.meta.beginposition,
     ingestiondate |-> item.meta.ingestiondate]
WithUid(item) ==
    [_uid |-> Some(item.uid), beginposition |-> item.meta.beginposition,
     ingestiondate |-> item.meta.ingestiondate]

QueryMonths == {DefaultMonths} \cup {<<5, m>> : m \in {2, 4, 6, 9, 11}}

\* The years a caller of the query passes: an empty range, one window, or two.
QueryYears == {DefaultStartYear, DefaultStartYear + 1}

\* The arguments a caller may pass besides the years and the months.
CriteriaArgs ==
    {DefaultCriteria,
     [wkt_area |-> "POLYGON_B", cloud_max |-> [kind |-> "int", tenths |-> 200],
      product_type |-> "S2MSI1C", platformname |-> "Sentinel-2"]}

\* float(x)
Float(x) == [kind |-> "float", tenths |-> x.tenths]

\* The arguments of the api.query call for one date window.
ApiQueryArgs(window) ==
    [area |-> criteria.wkt_area, date |-> window,
     platformname |-> criteria.platformname,
     producttype |-> criteria.product_type,
     cloudcoverpercentage |->
        <<[kind |-> "int", tenths |-> 0], Float(criteria.cloud_max)>>]

\* The window the loop over date_ranges queries next.
NextWindow_again(ranges, calls) == ranges[IF calls = <<>> THEN 1 ELSE Len(calls)]
NextWindow(ranges, calls) == ranges[Len(calls) + 1]

\* for uid, meta in products.items(): meta["_uid"] = uid; results.append(meta)
Aggregate_dedup(res, resp) ==
    res \o SelectSeq([i \in 1 .. Len(resp) |-> WithUid(resp[i])],
                     LAMBDA m : \A k \in 1 .. Len(res) : res[k]._uid # m._uid)
Aggregate(res, resp) == res \o [i \in 1 .. Len(resp) |-> WithUid(resp[i])]

\* The keys of a response, in response order.
Keys(resp) == [i \in 1 .. Len(resp) |-> resp[i].uid]

InitQuery ==
    /\ pc = "query_call"
    /\ start_year \in QueryYears
    /\ end_year \in QueryYears
    /\ months \in QueryMonths
    /\ date_ranges = <<>>
    /\ NoQuery
    /\ NoDownload
    /\ criteria \in CriteriaArgs
    /\ NoMain

\* date_ranges = _month_limited_date_ranges(start_year, end_year, months)
QueryRanges ==
    /\ pc = "query_call"
    /\ LET r == month_limited_date_ranges(start_year, end_year, months)
       IN  IF r.raised
           THEN pc' = "query_raised" /\ UNCHANGED date_ranges
           ELSE pc' = "query_loop" /\ date_ranges' = r.value
    /\ UNCHANGED <<mainVars, start_year, end_year, months, queryVars, downloadVars>>

\* One iteration of the loop over date_ranges: api.query returns.
QueryWindow ==
    /\ pc = "query_loop"
    /\ Len(query_calls) < Len(date_ranges)
    /\ \E resp \in Responses :
        /\ DistinctKeys(resp)
        /\ Len(results) + Len(resp) <= MaxResults
        /\ query_calls' =
              Append(query_calls,
                     [args |-> ApiQueryArgs(NextWindow(date_ranges, query_calls)),
                      keys |-> Some(Keys(resp))])
        /\ results' = Aggregate(results, resp)
    /\ UNCHANGED <<mainVars, pc, rank_in, dateVars, downloadVars>>

\* One iteration of the loop over date_ranges: api.query raises.
QueryWindowRaises ==
    /\ pc = "query_loop"
    /\ Len(query_calls) < Len(date_ranges)
    /\ query_calls' =
          Append(query_calls,
                 [args |-> ApiQueryArgs(NextWindow(date_ranges, query_calls)),
                  keys |-> None])
    /\ pc' = "query_raised"
    /\ UNCHANGED <<mainVars, results, rank_in, dateVars, downloadVars>>

\* results.sort(...) and return results
QuerySort ==
    /\ pc = "query_loop"
    /\ Len(query_calls) = Len(date_ranges)
    /\ rank_in' = results
    /\ IF SortRaises(results)
       THEN pc' = "query_raised" /\ UNCHANGED results
       ELSE pc' = "query_returned" /\ results' = ListSortReverse(results)
    /\ UNCHANGED <<mainVars, query_calls, dateVars, downloadVars>>

NextQuery == QueryRanges \/ QueryWindow \/ QueryWindowRaises \/ QuerySort

SpecQuery == InitQuery /\ [][NextQuery]_vars

----------------------------------------------------------------------------
\* download_products

\* Bound of the download model.
MaxProducts == 3

\* The _uid an entry handed to download_products may carry: none, the empty
\* string, or an identifier.
UidValues == {None, Some("")} \cup {Some(u) : u \in Uids}
ProductEntries ==
    [_uid : UidValues, beginposition : {Some(1)}, ingestiondate : {None}]

RECURSIVE SeqsUpTo(_, _)
SeqsUpTo(S, n) ==
    IF n = 0 THEN {<<>>}
    ELSE LET shorter == SeqsUpTo(S, n - 1)
         IN  shorter \cup {Append(q, x) : q \in {r \in shorter : Len(r) = n - 1},
                                          x \in S}

\* `not uid`
NotUid_noneonly(uid) == uid = None
NotUid(uid) == uid = None \/ uid = Some("")

\* The archive api.download writes for uid under out_dir.
PathOf(uid) == <<"out_dir", uid[1]>>

\* What api.download returns on success: a dict with a 'path' key, or the
\* path itself.
DownloadReturns(uid) ==
    {[isdict |-> TRUE, path |-> PathOf(uid)],
     [isdict |-> FALSE, path |-> PathOf(uid)]}

\* res.get("path") if isinstance(res, dict) else res
LocalPath(res) == res.path

InitDownload ==
    /\ pc = "download_loop"
    /\ start_year = DefaultStartYear
    /\ end_year = DefaultStartYear
    /\ months = DefaultMonths
    /\ date_ranges = <<>>
    /\ NoQuery
    /\ products \in SeqsUpTo(ProductEntries, MaxProducts)
    /\ di = 1
    /\ downloaded = <<>>
    /\ download_calls = <<>>
    /\ warnings = 0
    /\ exceptions = 0
    /\ criteria = DefaultCriteria
    /\ NoMain

\* An entry without identifier: logger.warning and continue.
DownloadSkip ==
    /\ pc = "download_loop"
    /\ di <= Len(products)
    /\ NotUid(products[di]._uid)
    /\ warnings' = warnings + 1
    /\ di' = di + 1
    /\ UNCHANGED <<mainVars, pc, products, downloaded, download_calls, exceptions,
                   dateVars, queryVars>>

\* api.download returns: its path is appended to downloaded.
DownloadOk ==
    /\ pc = "download_loop"
    /\ di <= Len(products)
    /\ ~NotUid(products[di]._uid)
    /\ \E res \in DownloadReturns(products[di]._uid) :
        /\ download_calls' =
              Append(download_calls,
                     [uid |-> products[di]._uid, index |-> di, res |-> Some(res)])
        /\ downloaded' = Append(downloaded, LocalPath(res))
    /\ di' = di + 1
    /\ UNCHANGED <<mainVars, pc, products, warnings, exceptions, dateVars, queryVars>>

\* api.download raises: except Exception, logger.exception, next entry.
DownloadFails_abort ==
    /\ pc = "download_loop"
    /\ di <= Len(products)
    /\ ~NotUid(products[di]._uid)
    /\ download_calls' =
          Append(download_calls,
                 [uid |-> products[di]._uid, index |-> di, res |-> None])
    /\ exceptions' = exceptions + 1
    /\ pc' = "download_returned"
    /\ UNCHANGED <<mainVars, di, products, downloaded, warnings, dateVars, queryVars>>
DownloadFails_marker ==
    /\ pc = "download_loop"
    /\ di <= Len(products)
    /\ ~NotUid(products[di]._uid)
    /\ download_calls' =
          Append(download_calls,
                 [uid |-> products[di]._uid, index |-> di, res |-> None])
    /\ exceptions' = exceptions + 1
    /\ downloaded' = Append(downloaded, None)
    /\ di' = di + 1
    /\ UNCHANGED <<mainVars, pc, products, warnings, dateVars, queryVars>>
DownloadFails ==
    /\ pc = "download_loop"
    /\ di <= Len(products)
    /\ ~NotUid(products[di]._uid)
    /\ download_calls' =
          Append(download_calls,
                 [uid |-> products[di]._uid, index |-> di, res |-> None])
    /\ exceptions' = exceptions + 1
    /\ di' = di + 1
    /\ UNCHANGED <<mainVars, pc, products, downloaded, warnings, dateVars, queryVars>>

\* The loop is exhausted: return downloaded.
DownloadReturn ==
    /\ pc = "download_loop"
    /\ di > Len(products)
    /\ pc' = "download_returned"
    /\ UNCHANGED <<mainVars, dateVars, queryVars, downloadVars>>

NextDownload == DownloadSkip \/ DownloadOk \/ DownloadFails \/ DownloadReturn

SpecDownload == InitDownload /\ [][NextDownload]_vars

----------------------------------------------------------------------------
\* select_and_stack_bands

\* Band lists of the composites (defaults of the configuration).
RgbBands == <<"B04", "B03", "B02">>
NirBands == <<"B08", "B04", "B03">>

\* str.upper on a band name, str.lower on a file extension.
Upper(b) ==
    CASE b = "b02" -> "B02" [] b = "b03" -> "B03" [] b = "b04" -> "B04"
      [] b = "b08" -> "B08" [] OTHER -> b
Lower(e) ==
    CASE e = "JP2" -> "jp2" [] e = "TIF" -> "tif" [] e = "XML" -> "xml"
      [] OTHER -> e

\* A file of a SAFE directory: the band tag its name holds and its extension.
BandFile(t, e) == [tag |-> t, ext |-> e]
AllBandFiles == {BandFile(t, "jp2") : t \in {"B02", "B03", "B04", "B08"}}

\* The contents a downloaded product directory may have.
SafeDirs ==
    { AllBandFiles,
      (AllBandFiles \ {BandFile("B08", "jp2")}) \cup {BandFile("B08", "TIF")},
      (AllBandFiles \ {BandFile("B02", "jp2")}) \cup {BandFile("B02", "xml")},
      AllBandFiles \ {BandFile("B08", "jp2")},
      {} }

\* band.upper() in f and f.lower().endswith((".jp2", ".tif"))
Found(files, band) ==
    \E f \in files : f.tag = Upper(band) /\ Lower(f.ext) \in {"jp2", "tif"}

AllFound(files, band_list) ==
    \A i \in 1 .. Len(band_list) : Found(files, band_list[i])

\* One call of select_and_stack_bands on a directory holding `files`, with
\* mgmt.CompositeBands succeeding or raising: whether every band was found,
\* whether CompositeBands was invoked, and whether the call returned.
select_and_stack_bands_nocheck(files, band_list, toolkit_ok) ==
    [found |-> AllFound(files, band_list), invoked |-> TRUE, ok |-> toolkit_ok]
select_and_stack_bands(files, band_list, toolkit_ok) ==
    IF ~AllFound(files, band_list)
    THEN [found |-> FALSE, invoked |-> FALSE, ok |-> FALSE]
    ELSE [found |-> TRUE, invoked |-> TRUE, ok |-> toolkit_ok]

----------------------------------------------------------------------------
\* main_example

\* Bound of the limit_products setting.
MaxLimit == 3

Limits == {None} \cup {Some(n) : n \in -1 .. MaxLimit}

Configs ==
    [emlid_csv : BOOLEAN, wkt_area : {None, Some("POLYGON_CFG")},
     limit_products : Limits]

Min(a, b) == IF a <= b THEN a ELSE b
Max(a, b) == IF a >= b THEN a ELSE b

\* s[:n]
SliceTo(s, n) ==
    IF n >= 0 THEN SubSeq(s, 1, Min(n, Len(s)))
    ELSE SubSeq(s, 1, Max(Len(s) + n, 0))

\* products[:limit] if limit else products
LimitProducts_notnone(prods, limit) ==
    IF limit # None THEN SliceTo(prods, limit[1]) ELSE prods
LimitProducts(prods, limit) ==
    IF limit # None /\ limit # Some(0) THEN SliceTo(prods, limit[1]) ELSE prods

InitMain ==
    /\ pc = "main_step1"
    /\ caller = "main"
    /\ config \in Configs
    /\ start_year = DefaultStartYear
    /\ end_year = DefaultStartYear
    /\ months \in {DefaultMonths, <<5, 6>>}
    /\ date_ranges = <<>>
    /\ NoQuery
    /\ NoDownload
    /\ criteria = DefaultCriteria
    /\ steps = <<>>
    /\ composites = <<>>

\* Step 1 with an Emlid CSV configured: create_polygons_from_config returns.
MainStudyArea ==
    /\ pc = "main_step1"
    /\ config.emlid_csv
    /\ steps' = Append(steps, "study_area")
    /\ pc' = "main_step2"
    /\ UNCHANGED <<criteria, caller, config, composites, dateVars, queryVars,
                   downloadVars>>

\* Step 1 with an Emlid CSV configured: create_polygons_from_config raises.
MainStudyAreaRaises ==
    /\ pc = "main_step1"
    /\ config.emlid_csv
    /\ steps' = Append(steps, "study_area")
    /\ pc' = "main_raised"
    /\ UNCHANGED <<criteria, caller, config, composites, dateVars, queryVars,
                   downloadVars>>

\* Step 1 without an Emlid CSV: logger.warning, study_areas_fc = None.
MainNoStudyArea ==
    /\ pc = "main_step1"
    /\ ~config.emlid_csv
    /\ pc' = "main_step2"
    /\ UNCHANGED <<mainVars, dateVars, queryVars, downloadVars>>

\* Step 2: the WKT area from the feature class if it exists, else from the
\* configuration; ValueError without one; then the query is called.
MainQueryCall ==
    /\ pc = "main_step2"
    /\ \E fc_exists \in BOOLEAN :
        LET wkt_area == IF config.emlid_csv /\ fc_exists
                        THEN Some("POLYGON_FC") ELSE config.wkt_area
        IN  IF wkt_area = None
            THEN pc' = "main_raised" /\ UNCHANGED <<criteria, steps>>
            ELSE /\ criteria' = [DefaultCriteria EXCEPT !.wkt_area = wkt_area[1]]
                 /\ steps' = Append(steps, "query")
                 /\ pc' = "query_call"
    /\ UNCHANGED <<caller, config, composites, dateVars, queryVars,
                   downloadVars>>

\* The query raised: the exception leaves main_example.
MainQueryRaised ==
    /\ pc = "query_raised"
    /\ caller = "main"
    /\ pc' = "main_raised"
    /\ UNCHANGED <<mainVars, dateVars, queryVars, downloadVars>>

\* The query returned: return if there are no products, else step 3, the
\* download of the first limit_products products.
MainAfterQuery_always ==
    /\ pc = "query_returned"
    /\ caller = "main"
    /\ products' = LimitProducts(results, config.limit_products)
    /\ steps' = Append(steps, "download")
    /\ pc' = "download_loop"
    /\ UNCHANGED <<di, downloaded, download_calls, warnings, exceptions,
                   criteria, caller, config, composites, dateVars, queryVars>>
MainAfterQuery ==
    /\ pc = "query_returned"
    /\ caller = "main"
    /\ IF results = <<>>
       THEN pc' = "main_returned" /\ UNCHANGED <<products, steps>>
       ELSE /\ products' = LimitProducts(results, config.limit_products)
            /\ steps' = Append(steps, "download")
            /\ pc' = "download_loop"
    /\ UNCHANGED <<di, downloaded, download_calls, warnings, exceptions,
                   criteria, caller, config, composites, dateVars, queryVars>>

\* The download returned: step 4 if anything was downloaded, else the end.
MainAfterDownload ==
    /\ pc = "download_returned"
    /\ caller = "main"
    /\ IF downloaded = <<>>
       THEN pc' = "main_returned" /\ UNCHANGED steps
       ELSE pc' = "main_composite" /\ steps' = Append(steps, "composite")
    /\ UNCHANGED <<criteria, caller, config, composites, dateVars, queryVars,
                   downloadVars>>

\* The number of downloaded products whose composites have been attempted.
CompositesDone ==
    IF composites = <<>> THEN 0 ELSE composites[Len(composites)].product

Attempt(i, kind, r) ==
    [product |-> i, kind |-> kind, found |-> r.found, invoked |-> r.invoked,
     ok |-> r.ok]

\* One iteration of the loop of step 4: the RGB composite, then the NIR
\* composite; an exception of either is logged and the loop goes on.
MainComposite ==
    /\ pc = "main_composite"
    /\ CompositesDone < Len(downloaded)
    /\ \E files \in SafeDirs, rgb_ok \in BOOLEAN, nir_ok \in BOOLEAN :
        LET i == CompositesDone + 1
            rgb == select_and_stack_bands(files, RgbBands, rgb_ok)
            nir == select_and_stack_bands(files, NirBands, nir_ok)
        IN  composites' =
                composites \o <<Attempt(i, "rgb", rgb)>>
                    \o (IF rgb.ok THEN <<Attempt(i, "nir", nir)>> ELSE <<>>)
    /\ UNCHANGED <<pc, criteria, caller, config, steps, dateVars, queryVars,
                   downloadVars>>

\* The loop of step 4 is exhausted: main_example returns.
MainReturn ==
    /\ pc = "main_composite"
    /\ CompositesDone = Len(downloaded)
    /\ pc' = "main_returned"
    /\ UNCHANGED <<mainVars, dateVars, queryVars, downloadVars>>

NextMain ==
    \/ MainStudyArea \/ MainStudyAreaRaises \/ MainNoStudyArea
    \/ MainQueryCall \/ MainQueryRaised \/ MainAfterQuery
    \/ MainAfterDownload \/ MainComposite \/ MainReturn

----------------------------------------------------------------------------
\* The module as a whole: one of its functions is called.

Init == InitDates \/ InitQuery \/ InitDownload \/ InitMain

Next ==
    \/ RangesReturn
    \/ RangesRaise
    \/ QueryRanges
    \/ QueryWindow
    \/ QueryWindowRaises
    \/ QuerySort
    \/ DownloadSkip
    \/ DownloadOk
    \/ DownloadFails
    \/ DownloadReturn
    \/ MainStudyArea
    \/ MainStudyAreaRaises
    \/ MainNoStudyArea
    \/ MainQueryCall
    \/ MainQueryRaised
    \/ MainAfterQuery
    \/ MainAfterDownload
    \/ MainComposite
    \/ MainReturn

Spec == Init /\ [][Next]_vars

----------------------------------------------------------------------------
\* Properties of _month_limited_date_ranges

LongMonths == {1, 3, 5, 7, 8, 10, 12}
ShortMonths == {2, 4, 6, 9, 11}

\* The month pairs the builder is defined for: both are months, and day 31
\* exists in the end-month.
ValidMonths(ms) == ms[1] \in 1 .. 12 /\ ms[2] \in LongMonths

RangesDone == pc \in {"ranges_returned", "ranges_raised"}

WindowStart(w) == fromisoformat(w[1])
WindowEnd(w) == fromisoformat(w[2])

WindowsWellFormed ==
    /\ pc = "ranges_returned"
    /\ Len(date_ranges) = end_year - start_year + 1
    /\ \A i \in 1 .. Len(date_ranges) :
        /\ WindowStart(date_ranges[i]).year = WindowEnd(date_ranges[i]).year
        /\ DateLeq(WindowStart(date_ranges[i]), WindowEnd(date_ranges[i]))

Iso(y1, y2, y3, y4, m1, m2, d1, d2) ==
    <<y1, y2, y3, y4, "-", m1, m2, "-", d1, d2>>

Example2019to2021 ==
    << <<Iso("2", "0", "1", "9", "0", "5", "0", "1"),
         Iso("2", "0", "1", "9", "0", "8", "3", "1")>>,
       <<Iso("2", "0", "2", "0", "0", "5", "0", "1"),
         Iso("2", "0", "2", "0", "0", "8", "3", "1")>>,
       <<Iso("2", "0", "2", "1", "0", "5", "0", "1"),
         Iso("2", "0", "2", "1", "0", "8", "3", "1")>> >>

\* C2: the returned windows are in ascending year order, exactly one per year
\* of the range, and the window of year y runs from the first day of the
\* start-month in y to the last day of the end-month in y; (2019, 2021, (5, 8))
\* yields the three May-August windows of 2019, 2020 and 2021.
C2_OneWindowPerYearAscending ==
    pc = "ranges_returned" =>
        /\ Len(date_ranges) =
              (IF start_year <= end_year THEN end_year - start_year + 1 ELSE 0)
        /\ \A i \in 1 .. Len(date_ranges) :
            LET y == start_year + i - 1
            IN  /\ WindowStart(date_ranges[i]) = Date(y, months[1], 1)
                /\ WindowEnd(date_ranges[i]) =
                      Date(y, months[2], DaysInMonth(y, months[2]))
        /\ \A i, j \in 1 .. Len(date_ranges) :
            i < j => WindowStart(date_ranges[i]).year
                        < WindowStart(date_ranges[j]).year
        /\ (start_year = 2019 /\ end_year = 2021 /\ months = <<5, 8>>)
              => date_ranges = Example2019to2021

C2_Witness ==
    /\ pc = "ranges_returned"
    /\ start_year = 2019 /\ end_year = 2021 /\ months = <<5, 8>>
    /\ date_ranges = Example2019to2021

\* C3: when the end-month has fewer than 31 days and the year range is not
\* empty, the builder raises and no window list exists, neither a partial one
\* nor one with a clamped end date; query_sentinel_products then makes no
\* catalog search call.
C3_ShortEndMonthRaises ==
    (start_year <= end_year /\ months[2] \in ShortMonths) =>
        /\ pc \in {"ranges_call", "ranges_raised", "query_call", "query_raised",
                  "main_step1", "main_step2", "main_raised"}
        /\ date_ranges = <<>>
        /\ query_calls = <<>>

C3_Witness ==
    /\ pc = "query_raised"
    /\ start_year < end_year
    /\ months[2] = 6
    /\ date_ranges = <<>>
    /\ query_calls = <<>>

----------------------------------------------------------------------------
\* Properties of the ranking step of query_sentinel_products

HasTs(m) == SortKey(m) # None

Occurrences(s, e) == Cardinality({i \in 1 .. Len(s) : s[i] = e})

IsPermutation(s, t) ==
    /\ Len(s) = Len(t)
    /\ \A i \in 1 .. Len(s) : Occurrences(s, s[i]) = Occurrences(t, s[i])

DescendingByTs(s) ==
    \A i, j \in 1 .. Len(s) :
        (i < j /\ HasTs(s[i]) /\ HasTs(s[j]))
            => SortKey(s[i])[1] >= SortKey(s[j])[1]

\* The sort was reached: the aggregated list was handed to results.sort.
SortReached ==
    /\ pc \in {"query_returned", "query_raised"}
    /\ Len(query_calls) = Len(date_ranges)
    /\ rank_in = results \/ pc = "query_returned"
    /\ rank_in # <<>>

\* C4: the returned list is ordered by acquisition timestamp descending, for
\* every two positions whose entries both carry a timestamp, and is a
\* permutation of the aggregated entries.
C4_ReturnedDescending ==
    pc = "query_returned" =>
        /\ DescendingByTs(results)
        /\ IsPermutation(results, rank_in)

C4_Witness ==
    /\ pc = "query_returned"
    /\ Len(results) = 3
    /\ results # rank_in
    /\ SortKey(results[1]) # SortKey(results[3])

WithoutTs(s) == SelectSeq(s, LAMBDA m : ~HasTs(m))
WithTs(s) == SelectSeq(s, HasTs)

TimestamplessLast(s) ==
    \A i, j \in 1 .. Len(s) : (~HasTs(s[i]) /\ HasTs(s[j])) => j < i

\* C5: when some aggregated entries have no timestamp, the ranking still
\* succeeds, every entry without a timestamp comes after all entries with
\* one, and the entries without a timestamp keep their relative order.
C5_MissingTimestampsLast ==
    (SortReached /\ \E i \in 1 .. Len(rank_in) : ~HasTs(rank_in[i])) =>
        /\ pc = "query_returned"
        /\ TimestamplessLast(results)
        /\ WithoutTs(results) = WithoutTs(rank_in)

WithKey(s, k) == SelectSeq(s, LAMBDA m : SortKey(m) = k)

\* C6: the ranking is stable: entries with equal timestamps appear in the
\* result in the relative order in which they were aggregated.
C6_StableRanking ==
    pc = "query_returned" =>
        \A k \in Timestamps : WithKey(results, k) = WithKey(rank_in, k)

C6_Witness ==
    /\ pc = "query_returned"
    /\ Len(results) = 3
    /\ results # rank_in
    /\ \E i, j \in 1 .. 3 :
        /\ i < j
        /\ SortKey(rank_in[i]) = SortKey(rank_in[j])
        /\ rank_in[i] # rank_in[j]

\* A sequence that is ranked: timestamps descending, entries without a
\* timestamp last.
IsRanked(s) == DescendingByTs(s) /\ TimestamplessLast(s)

\* C7: ranking is idempotent: the ranking step applied to an already ranked
\* sequence yields exactly that sequence, for every collection of entries.
C7_RankingIdempotent ==
    (SortReached /\ IsRanked(rank_in)) =>
        /\ pc = "query_returned"
        /\ results = rank_in

----------------------------------------------------------------------------
\* Properties of download_products

MissingId(m) == m._uid = None \/ m._uid = Some("")

Processed == 1 .. (di - 1)

Succeeded == SelectSeq(download_calls, LAMBDA c : c.res # None)

InDownload == pc \in {"download_loop", "download_returned"}

\* C8: no download call and no result for an entry whose identifier is
\* missing or empty; such an entry costs exactly one warning and the loop
\* goes on to the next entry.
C8_NoIdSkipped ==
    InDownload =>
        /\ \A k \in 1 .. Len(download_calls) :
              ~MissingId(products[download_calls[k].index])
        /\ warnings = Cardinality({i \in Processed : MissingId(products[i])})
        /\ Len(download_calls) =
              Cardinality({i \in Processed : ~MissingId(products[i])})
        /\ Len(downloaded) <= Len(download_calls)
        /\ pc = "download_returned" => di = Len(products) + 1
        /\ (pc = "download_returned" /\ Len(products) = 2 /\ exceptions = 0
              /\ MissingId(products[1]) /\ ~MissingId(products[2]))
              => (Len(downloaded) = 1 /\ warnings = 1)

C8_Witness ==
    /\ pc = "download_returned"
    /\ Len(products) = 2
    /\ products[1]._uid = Some("")
    /\ products[2]._uid = Some("a")
    /\ downloaded = <<PathOf(Some("a"))>>
    /\ warnings = 1

\* C9: a download call that raises for an entry does not abort the batch:
\* every later entry is still processed, and the result holds the paths of
\* all the other entries that downloaded and nothing for the failed one.
C9_FailureDoesNotAbort ==
    pc = "download_returned" =>
        /\ \A i \in 1 .. Len(products) :
              ~MissingId(products[i]) =>
                  \E k \in 1 .. Len(download_calls) : download_calls[k].index = i
        /\ \A k \in 1 .. Len(download_calls) :
              download_calls[k].res # None =>
                  \E n \in 1 .. Len(downloaded) :
                      downloaded[n] = PathOf(download_calls[k].uid)
        /\ Len(downloaded) + exceptions = Len(download_calls)
        /\ exceptions =
              Cardinality({k \in 1 .. Len(download_calls) :
                              download_calls[k].res = None})

C9_Witness ==
    /\ pc = "download_returned"
    /\ Len(download_calls) = 3
    /\ download_calls[1].res # None
    /\ download_calls[2].res = None
    /\ download_calls[3].res # None
    /\ Len(downloaded) = 2

\* C10: the returned list holds only paths produced by successful downloads,
\* no failure marker and no null element, one per entry that downloaded, in
\* the order the entries were processed.
C10_OnlyProducedPaths ==
    InDownload =>
        /\ Len(downloaded) = Len(Succeeded)
        /\ \A n \in 1 .. Len(downloaded) :
            /\ downloaded[n] # None
            /\ downloaded[n] = LocalPath(Succeeded[n].res[1])
            /\ downloaded[n] = PathOf(products[Succeeded[n].index]._uid)
        /\ \A n, k \in 1 .. Len(Succeeded) :
              n < k => Succeeded[n].index < Succeeded[k].index

C10_Witness ==
    /\ pc = "download_returned"
    /\ Len(products) = 3
    /\ exceptions = 1
    /\ warnings = 1
    /\ Len(downloaded) = 1

----------------------------------------------------------------------------
\* Properties of the catalog calls of query_sentinel_products

InQuery == pc \in {"query_call", "query_loop", "query_returned", "query_raised"}

\* The arguments every call is to carry for the window w.
ExpectedArgs(w) ==
    [area |-> criteria.wkt_area, date |-> w,
     platformname |-> criteria.platformname,
     producttype |-> criteria.product_type,
     cloudcoverpercentage |->
        <<[kind |-> "int", tenths |-> 0],
          [kind |-> "float", tenths |-> criteria.cloud_max.tenths]>>]

\* C11: one catalog search call per date window, one after the other in
\* ascending year order, each with its window's dates and the same area,
\* platform, product type and cloud-cover range (0, cloud_max); no window is
\* queried twice or skipped.
C11_OneCallPerWindow ==
    InQuery =>
        /\ Len(query_calls) <= Len(date_ranges)
        /\ \A k \in 1 .. Len(query_calls) :
              query_calls[k].args = ExpectedArgs(date_ranges[k])
        /\ \A k, n \in 1 .. Len(query_calls) :
              k < n => WindowStart(query_calls[k].args.date).year
                          < WindowStart(query_calls[n].args.date).year
        /\ pc = "query_returned" => Len(query_calls) = Len(date_ranges)

C11_Witness ==
    /\ pc = "query_returned"
    /\ Len(date_ranges) = 2
    /\ Len(query_calls) = 2
    /\ criteria.cloud_max.kind = "int"
    /\ query_calls[2].args.date = date_ranges[2]
    /\ results # <<>>

QueryFailed(k) == query_calls[k].keys = None

\* C12: a catalog query failure for one window is recovered: the function
\* does not end with that failure, the remaining windows are still queried
\* and their entries returned.
C12_QueryFailureRecovered ==
    (InQuery /\ \E k \in 1 .. Len(query_calls) : QueryFailed(k)) =>
        /\ pc # "query_raised" \/ rank_in # <<>>
        /\ pc = "query_returned" => Len(query_calls) = Len(date_ranges)

KeyCount(u) ==
    Cardinality({k \in 1 .. Len(query_calls) :
                    /\ ~QueryFailed(k)
                    /\ \E i \in 1 .. Len(query_calls[k].keys[1]) :
                          query_calls[k].keys[1][i] = u})

UidCount(s, u) == Cardinality({i \in 1 .. Len(s) : s[i]._uid = Some(u)})

\* C15 as stated: the returned entries are deduplicated, at most one entry
\* per identifier even when two windows return the same identifier.
C15_Deduplicated ==
    pc = "query_returned" =>
        \A i, j \in 1 .. Len(results) :
            i # j => results[i]._uid # results[j]._uid

\* C15 amended: the returned entries are not deduplicated: an identifier
\* appears once for every window whose response held it.
C15_OneEntryPerWindowItem ==
    pc = "query_returned" =>
        \A u \in Uids : UidCount(results, u) = KeyCount(u)

C15_Witness ==
    /\ pc = "query_returned"
    /\ caller = "none"
    /\ Len(query_calls) = 2
    /\ KeyCount("a") = 2
    /\ UidCount(results, "a") = 2

----------------------------------------------------------------------------
\* Properties of main_example

InMain == caller = "main"

Entered(step) == \E i \in 1 .. Len(steps) : steps[i] = step

If(cond, step) == IF cond THEN <<step>> ELSE <<>>

\* C13 as stated: every run of main_example that finishes without raising has
\* executed the four steps build study area, query, download, composite.
C13_FourStepsEndToEnd ==
    pc = "main_returned" =>
        steps = <<"study_area", "query", "download", "composite">>

\* C13 amended: a run that finishes without raising has executed, in the
\* order build study area, query, download, composite, the steps that apply:
\* the study area only with an Emlid CSV configured, the download only if the
\* query returned products, the composite only if something was downloaded;
\* no download call before the query has returned, no composite before the
\* download has returned.
C13_StepsInOrder ==
    InMain =>
        /\ pc = "main_returned" =>
              steps = If(config.emlid_csv, "study_area") \o <<"query">>
                        \o If(results # <<>>, "download")
                        \o If(downloaded # <<>>, "composite")
        /\ download_calls # <<>> =>
              /\ pc \in {"download_loop", "download_returned", "main_composite",
                         "main_returned", "main_raised"}
              /\ Entered("query") /\ Entered("download")
        /\ composites # <<>> =>
              /\ pc \in {"main_composite", "main_returned", "main_raised"}
              /\ Entered("download") /\ Entered("composite")
              /\ di = Len(products) + 1

C13_Witness ==
    /\ pc = "main_returned"
    /\ steps = <<"study_area", "query", "download", "composite">>
    /\ Len(download_calls) = 2
    /\ Len(composites) >= 2

\* C14: a composite failure is fatal for that one composite operation and is
\* not retried: select_and_stack_bands raises without invoking CompositeBands
\* when a listed band has no file, and in main_example a failure for one
\* downloaded product does not keep the later products from their attempts.
C14_CompositeFailureLocal ==
    InMain =>
        /\ \A k \in 1 .. Len(composites) :
              ~composites[k].found =>
                  (~composites[k].invoked /\ ~composites[k].ok)
        /\ \A k, n \in 1 .. Len(composites) :
              (composites[k].product = composites[n].product
                  /\ composites[k].kind = composites[n].kind) => k = n
        /\ (pc = "main_returned" /\ Entered("composite")) =>
              \A i \in 1 .. Len(downloaded) :
                  \E k \in 1 .. Len(composites) :
                      composites[k].product = i /\ composites[k].kind = "rgb"
        /\ pc = "main_raised" => composites = <<>>

C14_Witness ==
    /\ pc = "main_returned"
    /\ Len(downloaded) = 2
    /\ Len(composites) = 3
    /\ composites[1].product = 1 /\ ~composites[1].found
    /\ composites[2].product = 2 /\ composites[2].ok
    /\ composites[3].product = 2 /\ composites[3].ok

RECURSIVE AllKeys(_)
AllKeys(calls) ==
    IF calls = <<>> THEN <<>>
    ELSE AllKeys(SubSeq(calls, 1, Len(calls) - 1))
            \o (IF calls[Len(calls)].keys = None THEN <<>>
                ELSE calls[Len(calls)].keys[1])

Aggregated == IF pc = "query_loop" THEN results ELSE rank_in

QueryPast ==
    pc \in {"query_returned", "download_loop", "download_returned",
            "main_composite", "main_returned"}

\* C16: every returned entry carries the key the catalog returned it under
\* as its _uid, so with non-empty keys the download of the query result, or
\* of a prefix of it, skips no entry: one download call per entry, in ranked
\* order.
C16_UidIsCatalogKey ==
    /\ (pc \in {"query_loop", "query_returned"}
            \/ (QueryPast /\ Entered("query"))) =>
          /\ Len(Aggregated) = Len(AllKeys(query_calls))
          /\ \A i \in 1 .. Len(Aggregated) :
                Aggregated[i]._uid = Some(AllKeys(query_calls)[i])
          /\ pc # "query_loop" => IsPermutation(results, rank_in)
    /\ (InMain /\ pc \in {"download_loop", "download_returned"}
          /\ \A i \in 1 .. Len(AllKeys(query_calls)) :
                AllKeys(query_calls)[i] # "") =>
          /\ warnings = 0
          /\ Len(download_calls) = di - 1
          /\ \A k \in 1 .. Len(download_calls) :
                /\ download_calls[k].index = k
                /\ download_calls[k].uid = results[k]._uid
          /\ Len(products) <= Len(results)
          /\ products = SubSeq(results, 1, Len(products))

C16_Witness ==
    /\ InMain
    /\ pc = "download_returned"
    /\ Len(products) = 2
    /\ Len(download_calls) = 2
    /\ products[1]._uid # products[2]._uid
    /\ warnings = 0

\* C17: the download step gets the first limit_products entries of the
\* ranked list for a positive limit_products (all of them when it exceeds the
\* length), the whole list when limit_products is absent or 0, never an entry
\* the query did not return, and is not invoked when the query returned
\* nothing.
C17_LimitProducts ==
    InMain =>
        /\ Entered("download") =>
              /\ results # <<>>
              /\ config.limit_products \in {None, Some(0)} => products = results
              /\ (config.limit_products # None /\ config.limit_products[1] > 0) =>
                    /\ Len(products) =
                          Min(config.limit_products[1], Len(results))
                    /\ \A i \in 1 .. Len(products) : products[i] = results[i]
              /\ \A i \in 1 .. Len(products) :
                    \E j \in 1 .. Len(results) : products[i] = results[j]
        /\ ~Entered("download") =>
              (products = <<>> /\ download_calls = <<>> /\ downloaded = <<>>)
        /\ (pc = "main_returned" /\ results = <<>>) => ~Entered("download")

C17_Witness ==
    /\ pc = "download_returned"
    /\ InMain
    /\ config.limit_products = Some(1)
    /\ Len(results) = 2
    /\ products = <<results[1]>>
    /\ Len(download_calls) = 1

====
